---- MODULE Spec2Model ----
(***************************************************************************)
(* Model of contracts/NFTMarket.sol (the item ledger, its identifier       *)
(* counter and its event log).  Every public mutating function of the      *)
(* contract is one action; a call that reverts leaves the whole state as   *)
(* it was (EVM semantics) and only records its outcome in lastCall.        *)
(*                                                                         *)
(* Amounts are counted in units of 0.1 ether, so listingPrice is 1.        *)
(* The ERC721 collaborator is modelled as a conforming ERC721 that has the *)
(* market approved as operator: transferFrom(from, to, id) succeeds iff    *)
(* the token exists and is held by `from`.                                 *)
(*                                                                         *)
(* Spec takes every call as one step.  SpecSteps takes a call as two       *)
(* steps around its external transferFrom, with the callee calling back    *)
(* or reading in between.  The item page's history (pages/nft/[id].js) is  *)
(* modelled as operators over the event log.                               *)
(***************************************************************************)
EXTENDS Integers, Sequences, FiniteSets, TLC

\* ---- bounds ----
\* createMarketItem is accepted at most MaxItems times, the event log holds at
\* most MaxEvents events, and every account starts with InitFunds.
MaxItems == 2
MaxEvents == 4
MaxTime == 1
MaxRevertDepth == 2
\* the step-by-step specification follows ledgers of at most MaxStepEvents events
MaxStepEvents == 3
InitFunds == 3

\* ---- addresses ----
None == 0
Operator == 1
Alice == 2
Bob == 3
Market == 4
Callers == {Operator, Alice, Bob}
Accounts == {None, Operator, Alice, Bob, Market}

\* listingPrice = 0.1 ether, the unit of account of the model
listingPrice == 1

NftContracts == {"nftA", "nftB"}
NoContract == "0x0"
TokenIds == {0, 1}
\* prices and payments offered by callers (0 is the invalid price)
Prices == {0, 1, 2}
\* fees offered by callers: too little, exact, too much
Fees == {listingPrice - 1, listingPrice, listingPrice + 1}
ItemIdSpace == 0..MaxItems


DataInputs == {[dataHash |-> 1, licenseType |-> "personal", encryptedDataUrl |-> "ipfs://enc"]}

VARIABLES _itemIds, _itemsSold, idToMarketItem, balances, ownerOf, log, now, lastCall,
          _status,   \* ReentrancyGuard: "NOT_ENTERED" or "ENTERED"
          frame,     \* the mutating call that is in progress, with the state it started from
          seen       \* what reads made during the call in progress returned

vars == <<_itemIds, _itemsSold, idToMarketItem, balances, ownerOf, log, now, lastCall, _status, frame, seen>>
ledger == <<_itemIds, _itemsSold, idToMarketItem, balances, ownerOf, log>>
\* the state of a call in progress; a call taken as one step leaves it alone
inProgress == <<_status, frame, seen>>

\* the zero value of a mapping slot
EmptyItem == [itemId |-> 0, nftContract |-> NoContract, tokenId |-> 0, seller |-> None, owner |-> None, price |-> 0, dataHash |-> 0, licenseType |-> "", encryptedDataUrl |-> ""]

MarketItem(itemId, nftContract, tokenId, seller, owner, price, d) == [itemId |-> itemId, nftContract |-> nftContract, tokenId |-> tokenId, seller |-> seller, owner |-> owner, price |-> price, dataHash |-> d.dataHash, licenseType |-> d.licenseType, encryptedDataUrl |-> d.encryptedDataUrl]

NoCall == [op |-> "none", caller |-> None, nftContract |-> NoContract, itemId |-> 0, tokenId |-> 0, price |-> 0, value |-> 0, status |-> "none"]

\* no mutating call is in progress
NoFrame == [pc |-> "idle", call |-> NoCall, pre |-> <<>>, before |-> <<>>]

Call(op, caller, nftContract, itemId, tokenId, price, value, status) == [op |-> op, caller |-> caller, nftContract |-> nftContract, itemId |-> itemId, tokenId |-> tokenId, price |-> price, value |-> value, status |-> status]

\* ---- the external collaborators ----
\* IERC721(nft).transferFrom(from, to, tokenId) called by the market
TransferOk(nft, from, tokenId) == /\ nft \in NftContracts
                                  /\ tokenId \in TokenIds
                                  /\ ownerOf[nft][tokenId] = from

TransferFrom(nft, to, tokenId) == [ownerOf EXCEPT ![nft][tokenId] = to]

\* payable(to).transfer(amount) from account `from`
Pay(bal, from, to, amount) == [bal EXCEPT ![from] = bal[from] - amount, ![to] = bal[to] + (IF to = from THEN 0 ELSE amount)]

Init == /\ _itemIds = 0
        /\ _itemsSold = 0
        /\ idToMarketItem = [i \in ItemIdSpace |-> EmptyItem]
        /\ balances = [a \in Accounts |-> IF a \in Callers THEN InitFunds ELSE 0]
        /\ ownerOf = [n \in NftContracts |-> [t \in TokenIds |-> IF n = "nftA" THEN (IF t = 0 THEN Alice ELSE Bob) ELSE (IF t = 0 THEN Bob ELSE None)]]
        /\ log = <<>>
        /\ now = 0
        /\ lastCall = NoCall
        /\ _status = "NOT_ENTERED"
        /\ frame = NoFrame
        /\ seen = {}

\* variant: the ether sent with the reverted call stays with the contract
RejectKeepsValue(call) == /\ Len(log) <= MaxRevertDepth
                          /\ lastCall' = call
                          /\ balances' = Pay(balances, call.caller, Market, call.value)
                          /\ UNCHANGED <<_itemIds, _itemsSold, idToMarketItem, ownerOf, log, now, inProgress>>

\* a call that reverts: no effect on the contract, only the outcome is observed
\* (reverted calls are followed on ledgers of at most MaxRevertDepth events)
Reject(call) == /\ Len(log) <= MaxRevertDepth
                /\ lastCall' = call
                /\ UNCHANGED <<ledger, now, inProgress>>

\* A reverted call changes nothing, so whatever is reachable after it is
\* reachable without it: a behaviour is followed up to its first reverted call.
Live == lastCall.status \in {"none", "ok"}

\* ---- events ----
MarketItemCreated(itemId, nftContract, tokenId, seller, owner, price, d) == [kind |-> "Created", itemId |-> itemId, nftContract |-> nftContract, tokenId |-> tokenId, seller |-> seller, owner |-> owner, price |-> price, dataHash |-> d.dataHash, licenseType |-> d.licenseType, encryptedDataUrl |-> d.encryptedDataUrl]

\* variant: seller and buyer are swapped in the event
MarketItemSoldSwapped(itemId, nftContract, tokenId, seller, buyer, price, timestamp) == [kind |-> "Sold", itemId |-> itemId, nftContract |-> nftContract, tokenId |-> tokenId, seller |-> buyer, buyer |-> seller, price |-> price, timestamp |-> timestamp]

MarketItemSold(itemId, nftContract, tokenId, seller, buyer, price, timestamp) == [kind |-> "Sold", itemId |-> itemId, nftContract |-> nftContract, tokenId |-> tokenId, seller |-> seller, buyer |-> buyer, price |-> price, timestamp |-> timestamp]

MarketItemRelisted(itemId, nftContract, tokenId, seller, price, timestamp) == [kind |-> "Relisted", itemId |-> itemId, nftContract |-> nftContract, tokenId |-> tokenId, seller |-> seller, price |-> price, timestamp |-> timestamp]

\* variant: the event is keyed by the token id
MarketItemCanceledByToken(itemId, nftContract, tokenId, seller, timestamp) == [kind |-> "Canceled", itemId |-> tokenId, nftContract |-> nftContract, tokenId |-> tokenId, seller |-> seller, timestamp |-> timestamp]

MarketItemCanceled(itemId, nftContract, tokenId, seller, timestamp) == [kind |-> "Canceled", itemId |-> itemId, nftContract |-> nftContract, tokenId |-> tokenId, seller |-> seller, timestamp |-> timestamp]

\* ---- Counters (OpenZeppelin): increment, and decrement which reverts at 0 ----
incrementSkips(counter) == counter + 2

increment(counter) == counter + 1

canDecrement(counter) == counter > 0

decrement(counter) == counter - 1

\* ---- createMarketItem ----
\* the outcome of the requires and of the external transfer, in code order
createStatusAnyFee(caller, nftContract, tokenId, price, value) ==
  IF ~(price > 0) THEN "InvalidPrice"
  ELSE IF ~TransferOk(nftContract, caller, tokenId) THEN "TransferFailed"
  ELSE "ok"

createStatus(caller, nftContract, tokenId, price, value) ==
  IF ~(price > 0) THEN "InvalidPrice"
  ELSE IF value # listingPrice THEN "FeeMismatch"
  ELSE IF ~TransferOk(nftContract, caller, tokenId) THEN "TransferFailed"
  ELSE "ok"

\* the record stored for a new listing
newMarketItemOwned(itemId, nftContract, tokenId, sender, price, d) == MarketItem(itemId, nftContract, tokenId, sender, sender, price, d)

newMarketItem(itemId, nftContract, tokenId, sender, price, d) == MarketItem(itemId, nftContract, tokenId, sender, None, price, d)

createMarketItem(caller, nftContract, tokenId, price, d, value) ==
  LET status == createStatus(caller, nftContract, tokenId, price, value)
      itemId == increment(_itemIds)
      call   == Call("create", caller, nftContract, IF status = "ok" THEN itemId ELSE 0, tokenId, price, value, status)
  IN /\ Live
     /\ value <= balances[caller]
     /\ IF status = "ok"
        THEN /\ _itemIds < MaxItems
             /\ Len(log) < MaxEvents
             /\ _itemIds' = itemId
             /\ idToMarketItem' = [idToMarketItem EXCEPT ![itemId] = newMarketItem(itemId, nftContract, tokenId, caller, price, d)]
             /\ balances' = Pay(balances, caller, Market, value)
             /\ ownerOf' = TransferFrom(nftContract, Market, tokenId)
             /\ log' = Append(log, MarketItemCreated(itemId, nftContract, tokenId, caller, None, price, d))
             /\ lastCall' = call
             /\ UNCHANGED <<_itemsSold, now, inProgress>>
        ELSE Reject(call)

\* ---- createMarketSale ----
saleStatusAtLeast(caller, nftContract, itemId, value) ==
  LET price   == idToMarketItem[itemId].price
      tokenId == idToMarketItem[itemId].tokenId
  IN IF value < price THEN "PriceMismatch"
     ELSE IF ~TransferOk(nftContract, Market, tokenId) THEN "TransferFailed"
     ELSE IF balances[Market] < listingPrice THEN "PaymentFailed"
     ELSE "ok"

saleStatus(caller, nftContract, itemId, value) ==
  LET price   == idToMarketItem[itemId].price
      tokenId == idToMarketItem[itemId].tokenId
  IN IF value # price THEN "PriceMismatch"
     ELSE IF ~TransferOk(nftContract, Market, tokenId) THEN "TransferFailed"
     ELSE IF balances[Market] < listingPrice THEN "PaymentFailed"
     ELSE "ok"

\* msg.value comes in, goes to the seller, and the operator gets listingPrice
salePaymentsNoFee(caller, seller, value) == Pay(Pay(balances, caller, Market, value), Market, seller, value)

salePayments(caller, seller, value) == Pay(Pay(Pay(balances, caller, Market, value), Market, seller, value), Market, Operator, listingPrice)

createMarketSale(caller, nftContract, itemId, value) ==
  LET price   == idToMarketItem[itemId].price
      tokenId == idToMarketItem[itemId].tokenId
      seller  == idToMarketItem[itemId].seller
      status  == saleStatus(caller, nftContract, itemId, value)
      call    == Call("purchase", caller, nftContract, itemId, tokenId, price, value, status)
  IN /\ Live
     /\ value <= balances[caller]
     /\ IF status = "ok"
        THEN /\ Len(log) < MaxEvents
             /\ balances' = salePayments(caller, seller, value)
             /\ ownerOf' = TransferFrom(nftContract, caller, tokenId)
             /\ idToMarketItem' = [idToMarketItem EXCEPT ![itemId].owner = caller]
             /\ _itemsSold' = increment(_itemsSold)
             /\ log' = Append(log, MarketItemSold(itemId, nftContract, tokenId, seller, caller, price, now))
             /\ lastCall' = call
             /\ UNCHANGED <<_itemIds, now, inProgress>>
        ELSE Reject(call)

\* ---- relistMarketItem ----
relistStatusAnyPrice(caller, itemId, price, value) ==
  LET item == idToMarketItem[itemId]
  IN IF item.owner # caller THEN "NotOwner"
     ELSE IF value # listingPrice THEN "FeeMismatch"
     ELSE IF ~TransferOk(item.nftContract, caller, item.tokenId) THEN "TransferFailed"
     ELSE IF ~canDecrement(_itemsSold) THEN "CounterUnderflow"
     ELSE "ok"

relistStatus(caller, itemId, price, value) ==
  LET item == idToMarketItem[itemId]
  IN IF item.owner # caller THEN "NotOwner"
     ELSE IF ~(price > 0) THEN "InvalidPrice"
     ELSE IF value # listingPrice THEN "FeeMismatch"
     ELSE IF ~TransferOk(item.nftContract, caller, item.tokenId) THEN "TransferFailed"
     ELSE IF ~canDecrement(_itemsSold) THEN "CounterUnderflow"
     ELSE "ok"

\* the record after a relist
relistedKeepsSeller(item, sender, price) == [item EXCEPT !.owner = None, !.price = price]

relisted(item, sender, price) == [item EXCEPT !.seller = sender, !.owner = None, !.price = price]

relistMarketItem(caller, itemId, price, value) ==
  LET item   == idToMarketItem[itemId]
      status == relistStatus(caller, itemId, price, value)
      call   == Call("relist", caller, item.nftContract, itemId, item.tokenId, price, value, status)
  IN /\ Live
     /\ value <= balances[caller]
     /\ IF status = "ok"
        THEN /\ Len(log) < MaxEvents
             /\ balances' = Pay(balances, caller, Market, value)
             /\ ownerOf' = TransferFrom(item.nftContract, Market, item.tokenId)
             /\ idToMarketItem' = [idToMarketItem EXCEPT ![itemId] = relisted(item, caller, price)]
             /\ _itemsSold' = decrement(_itemsSold)
             /\ log' = Append(log, MarketItemRelisted(itemId, item.nftContract, item.tokenId, caller, price, now))
             /\ lastCall' = call
             /\ UNCHANGED <<_itemIds, now, inProgress>>
        ELSE Reject(call)

\* ---- cancelListing ----
\* variant: any caller may cancel an active listing
cancelStatusAnyCaller(caller, itemId) ==
  LET item == idToMarketItem[itemId]
  IN IF item.owner # None THEN "AlreadySold"
     ELSE IF ~TransferOk(item.nftContract, Market, item.tokenId) THEN "TransferFailed"
     ELSE "ok"

\* variant: the seller check comes first and the owner check is dropped
cancelStatusSellerOnly(caller, itemId) ==
  LET item == idToMarketItem[itemId]
  IN IF item.seller # caller THEN "NotSeller"
     ELSE IF ~TransferOk(item.nftContract, Market, item.tokenId) THEN "TransferFailed"
     ELSE "ok"

cancelStatus(caller, itemId) ==
  LET item == idToMarketItem[itemId]
  IN IF item.owner # None THEN "AlreadySold"
     ELSE IF item.seller # caller THEN "NotSeller"
     ELSE IF ~TransferOk(item.nftContract, Market, item.tokenId) THEN "TransferFailed"
     ELSE "ok"

\* variant: the listing fee is refunded to the canceling seller
cancelPaymentsRefund(caller) == Pay(balances, Market, caller, listingPrice)

\* cancelListing is not payable and makes no payment
cancelPayments(caller) == balances

cancelListing(caller, itemId) ==
  LET item   == idToMarketItem[itemId]
      status == cancelStatus(caller, itemId)
      call   == Call("cancel", caller, item.nftContract, itemId, item.tokenId, 0, 0, status)
  IN /\ Live
     /\ IF status = "ok"
        THEN /\ Len(log) < MaxEvents
             /\ ownerOf' = TransferFrom(item.nftContract, caller, item.tokenId)
             /\ log' = Append(log, MarketItemCanceled(itemId, item.nftContract, item.tokenId, caller, now))
             /\ idToMarketItem' = [idToMarketItem EXCEPT ![itemId].owner = item.seller]
             /\ balances' = cancelPayments(caller)
             /\ lastCall' = call
             /\ UNCHANGED <<_itemIds, _itemsSold, now, inProgress>>
        ELSE Reject(call)

\* a new block: block.timestamp advances
NewBlock == /\ now < MaxTime
            /\ now' = now + 1
            /\ UNCHANGED <<ledger, lastCall, inProgress>>

\* ---- views ----
\* fetchMarketItems: the counting pass
RECURSIVE unsoldCount(_)
unsoldCount(i) == IF i = 0 THEN 0
                  ELSE unsoldCount(i - 1) + (IF idToMarketItem[i].owner = None /\ idToMarketItem[i].itemId # 0 THEN 1 ELSE 0)

\* variant: the fill pass writes every issued item
RECURSIVE fillUnsoldAll(_)
fillUnsoldAll(i) == IF i = 0 THEN <<>>
                    ELSE Append(fillUnsoldAll(i - 1), idToMarketItem[i])

\* fetchMarketItems: the fill pass, items[0 .. currentIndex-1] after visiting 1..i
RECURSIVE fillUnsold(_)
fillUnsold(i) == IF i = 0 THEN <<>>
                 ELSE IF idToMarketItem[i].owner = None /\ idToMarketItem[i].itemId # 0
                      THEN Append(fillUnsold(i - 1), idToMarketItem[i])
                      ELSE fillUnsold(i - 1)

\* fetchMarketItems: an array of unsoldItemCount slots, written from index 0
\* upwards by the fill pass; a slot the fill pass does not reach stays zero
fetchMarketItems ==
  LET unsoldItemCount == unsoldCount(_itemIds)
      filled          == fillUnsold(_itemIds)
  IN [k \in 1..unsoldItemCount |-> IF k <= Len(filled) THEN filled[k] ELSE EmptyItem]

getMarketItem(marketItemId) == idToMarketItem[marketItemId]

verifyOwnership(itemId, user) == idToMarketItem[itemId].owner = user

\* getDataInfo: the three data fields of the slot, whatever the slot holds
getDataInfo(itemId) ==
  LET item == idToMarketItem[itemId]
  IN [dataHash |-> item.dataHash, licenseType |-> item.licenseType, encryptedDataUrl |-> item.encryptedDataUrl]

\* ---- the pages ----
\* The pages work on one token contract (NEXT_PUBLIC_NFT_ADDRESS).
nftaddress == "nftA"

\* the accounts that use the pages
PageUsers == {Alice, Bob}

\* web3.utils.fromWei(price, "ether") and web3.utils.toWei(price, "ether")
\* are exact and inverse to each other: a price on a page is kept as the
\* amount it stands for.

\* ---- the index page: loadNFTs and buyNft ----
\* the listing built from one item of fetchMarketItems (the token metadata
\* is taken to load); the item's itemId is not kept
indexListing(i) == [price |-> i.price, tokenId |-> i.tokenId, seller |-> i.seller, owner |-> i.owner]

loadNFTs == [k \in 1..Len(fetchMarketItems) |-> indexListing(fetchMarketItems[k])]

\* buyNft(nft): the call contract.createMarketSale(nftaddress, nft.tokenId, {value: price})
buyNft(nft) == [nftContract |-> nftaddress, itemId |-> nft.tokenId, value |-> nft.price]

\* ---- the item page (pages/nft/[id].js): loadNFT and the relist button ----
loadNFT(id) ==
  LET item == getMarketItem(id)
  IN [price |-> item.price, tokenId |-> item.tokenId, seller |-> item.seller, owner |-> item.owner]

\* currentUser && nft && currentUser === nft.owner.toLowerCase()
\* (currentUser is lower case: the comparison is equality of addresses)
isOwner(currentUser, nft) == currentUser # None /\ currentUser = nft.owner

isSeller(currentUser, nft) == currentUser # None /\ currentUser = nft.seller

\* the relist button: disabled={purchasing || !currentUser || !isSeller || !newPrice},
\* with no purchase under way and newPrice as loadNFT set it (nft.price, a
\* non-empty string)
relistEnabled(currentUser, nft) == ~(currentUser = None \/ ~isSeller(currentUser, nft))

\* ---- the item page (pages/nft/[id].js): the history of an item ----
\* JavaScript null
Null == -1

\* variant: the filter does not select by itemId
queryFilterAnyItem(kind, itemId) == SelectSeq(log, LAMBDA e : e.kind = kind)

\* contract.queryFilter(contract.filters.<Event>(itemId)): the events of one
\* kind with the given (indexed) itemId, in log order
queryFilter(kind, itemId) == SelectSeq(log, LAMBDA e : e.kind = kind /\ e.itemId = itemId)

\* e.args.timestamp ? e.args.timestamp.toNumber() : null
\* (an argument the event does not have is undefined; a BigNumber is truthy)
timestampOf(e) == IF "timestamp" \in DOMAIN e THEN e.timestamp ELSE Null

\* the entry pushed for one event: actor is the buyer of a Sold event and the
\* seller of the others; a CANCELED entry has no price
historyEntry(type, e) ==
  LET base == [type |-> type, itemId |-> e.itemId, tokenId |-> e.tokenId, timestamp |-> timestampOf(e)]
  IN IF type = "SOLD" THEN base @@ [actor |-> e.buyer, seller |-> e.seller, price |-> e.price]
     ELSE IF type = "CANCELED" THEN base @@ [actor |-> e.seller]
     ELSE base @@ [actor |-> e.seller, price |-> e.price]

historyEntries(type, es) == [k \in 1..Len(es) |-> historyEntry(type, es[k])]

\* fetchItemHistories: the events array after the four forEach loops, before it is sorted
pushedEvents(itemId) ==
  historyEntries("LISTED", queryFilter("Created", itemId))
    \o historyEntries("SOLD", queryFilter("Sold", itemId))
    \o historyEntries("RELISTED", queryFilter("Relisted", itemId))
    \o historyEntries("CANCELED", queryFilter("Canceled", itemId))

\* ToNumber of a timestamp in the subtraction a.timestamp - b.timestamp: null counts as 0
toNumber(t) == IF t = Null THEN 0 ELSE t

\* variant: the comparator orders by descending timestamp
compareTimestampsDescending(a, b) == toNumber(b.timestamp) - toNumber(a.timestamp)

\* the comparator (a, b) => a.timestamp - b.timestamp
compareTimestamps(a, b) == toNumber(a.timestamp) - toNumber(b.timestamp)

\* Array.prototype.sort is stable: x goes after every element of the sorted
\* prefix s that does not compare greater than x
RECURSIVE insertSorted(_, _)
insertSorted(s, x) ==
  IF Len(s) = 0 THEN <<x>>
  ELSE IF compareTimestamps(x, s[Len(s)]) < 0
       THEN Append(insertSorted(SubSeq(s, 1, Len(s) - 1), x), s[Len(s)])
       ELSE Append(s, x)

\* events.sort((a, b) => a.timestamp - b.timestamp)
RECURSIVE sortEvents(_)
sortEvents(s) == IF Len(s) = 0 THEN <<>>
                 ELSE insertSorted(sortEvents(SubSeq(s, 1, Len(s) - 1)), s[Len(s)])

\* fetchItemHistories(marketContract, itemId)
fetchItemHistories(itemId) == sortEvents(pushedEvents(itemId))

Create == \E c \in Callers, n \in NftContracts, t \in TokenIds, p \in Prices, d \in DataInputs, v \in Fees : createMarketItem(c, n, t, p, d, v)

Purchase == \E c \in Callers, n \in NftContracts, i \in ItemIdSpace, v \in Prices : createMarketSale(c, n, i, v)

Relist == \E c \in Callers, i \in ItemIdSpace, p \in Prices, v \in Fees : relistMarketItem(c, i, p, v)

Cancel == \E c \in Callers, i \in ItemIdSpace : cancelListing(c, i)

Next == Create \/ Purchase \/ Relist \/ Cancel

Spec == Init /\ [][Next]_vars

\* the same ledger with the block clock running
NextClock == Next \/ NewBlock

SpecClock == Init /\ [][NextClock]_vars

\* ---- the event log of the application ----

\* The event log alone: a reverted call leaves the log as it is, so the logs
\* the contract can have are those of its accepted calls, block after block.
\* The calls are those on the application's token contract, at the price and
\* the fee of one unit.
NextLog ==
  \/ \E c \in PageUsers, t \in TokenIds, d \in DataInputs :
        createMarketItem(c, nftaddress, t, listingPrice, d, listingPrice) /\ lastCall'.status = "ok"
  \/ \E c \in PageUsers, i \in ItemIdSpace :
        createMarketSale(c, nftaddress, i, idToMarketItem[i].price) /\ lastCall'.status = "ok"
  \/ \E c \in PageUsers, i \in ItemIdSpace :
        relistMarketItem(c, i, listingPrice, listingPrice) /\ lastCall'.status = "ok"
  \/ \E c \in PageUsers, i \in ItemIdSpace :
        cancelListing(c, i) /\ lastCall'.status = "ok"
  \/ NewBlock

SpecLog == Init /\ [][NextLog]_vars

\* =================== the calls, step by step ===================
\* Each mutating function makes one external call that hands control to code
\* the market does not own: IERC721(nftContract).transferFrom.  Here a call is
\* two steps, the part before that external call (Enter...) and the part
\* after it (Return...); while the external call runs the callee may call
\* the market back (Reenter) or read it (Read).  seller.transfer and
\* owner.transfer forward 2300 gas only and are taken as plain payments.

\* ---- ReentrancyGuard: modifier nonReentrant ----
\* variant: the modifier is missing
nonReentrantOff(status) == TRUE

\* require(_status != _ENTERED)
nonReentrant(status) == status # "ENTERED"

\* what a reader gets at this moment: the views of the market (verifyOwnership
\* and fetchMyNFTs are functions of the records getMarketItem returns), the
\* ether balances and the holders of the tokens
ReadView == [getMarketItem    |-> [i \in ItemIdSpace |-> getMarketItem(i)],
             fetchMarketItems |-> fetchMarketItems,
             balances         |-> balances,
             ownerOf          |-> ownerOf]

\* the modifier on entry: the guard is taken and the call is in progress
\* (a reverted call and a read change nothing, so a behaviour is followed up
\* to its first reverted call and up to the return of its first call that was read)
Enter(call) == /\ frame.pc # "external"
               /\ Live
               /\ seen = {}
               /\ nonReentrant(_status)
               /\ Len(log) < MaxStepEvents
               /\ call.value <= balances[call.caller]
               /\ _status' = "ENTERED"
               /\ frame' = [pc |-> "external", call |-> call, pre |-> <<ledger>>, before |-> <<ReadView>>]
               /\ seen' = {}
               /\ UNCHANGED <<log, now, lastCall>>

\* a call that is going to revert after its external call is followed on
\* ledgers of less than MaxRevertDepth events
Followed(status) == status = "ok" \/ Len(log) < MaxRevertDepth

\* the modifier on exit: the guard is released
Returned(status) == /\ _status' = "NOT_ENTERED"
                    /\ frame' = [frame EXCEPT !.pc = "returned"]
                    /\ lastCall' = [frame.call EXCEPT !.status = status]
                    /\ UNCHANGED <<now, seen>>

\* the call reverts: every effect it had so far is undone
Revert(status) == /\ _itemIds' = frame.pre[1][1]
                  /\ _itemsSold' = frame.pre[1][2]
                  /\ idToMarketItem' = frame.pre[1][3]
                  /\ balances' = frame.pre[1][4]
                  /\ ownerOf' = frame.pre[1][5]
                  /\ log' = frame.pre[1][6]
                  /\ Returned(status)

\* createMarketItem up to transferFrom: msg.value is in, the counter is
\* incremented and the record is stored
EnterCreate(caller, nftContract, tokenId, price, d, value) ==
  LET itemId == increment(_itemIds)
  IN /\ createStatus(caller, nftContract, tokenId, price, value) \in {"ok", "TransferFailed"}
     /\ Followed(createStatus(caller, nftContract, tokenId, price, value))
     /\ _itemIds < MaxItems
     /\ Enter(Call("create", caller, nftContract, itemId, tokenId, price, value, "pending"))
     /\ balances' = Pay(balances, caller, Market, value)
     /\ _itemIds' = itemId
     /\ idToMarketItem' = [idToMarketItem EXCEPT ![itemId] = newMarketItem(itemId, nftContract, tokenId, caller, price, d)]
     /\ UNCHANGED <<_itemsSold, ownerOf>>

\* createMarketItem from transferFrom on
ReturnCreate ==
  LET call == frame.call
  IN /\ frame.pc = "external"
     /\ call.op = "create"
     /\ IF TransferOk(call.nftContract, call.caller, call.tokenId)
        THEN /\ ownerOf' = TransferFrom(call.nftContract, Market, call.tokenId)
             /\ log' = Append(log, MarketItemCreated(call.itemId, call.nftContract, call.tokenId, call.caller, None, call.price, idToMarketItem[call.itemId]))
             /\ Returned("ok")
             /\ UNCHANGED <<_itemIds, _itemsSold, idToMarketItem, balances>>
        ELSE Revert("TransferFailed")

\* createMarketSale up to transferFrom: msg.value is in and forwarded to the seller
EnterSale(caller, nftContract, itemId, value) ==
  LET item == idToMarketItem[itemId]
  IN /\ saleStatus(caller, nftContract, itemId, value) # "PriceMismatch"
     /\ Followed(saleStatus(caller, nftContract, itemId, value))
     /\ Enter(Call("purchase", caller, nftContract, itemId, item.tokenId, item.price, value, "pending"))
     /\ balances' = Pay(Pay(balances, caller, Market, value), Market, item.seller, value)
     /\ UNCHANGED <<_itemIds, _itemsSold, idToMarketItem, ownerOf>>

\* createMarketSale from transferFrom on
ReturnSale ==
  LET call   == frame.call
      seller == idToMarketItem[call.itemId].seller
  IN /\ frame.pc = "external"
     /\ call.op = "purchase"
     /\ IF ~TransferOk(call.nftContract, Market, call.tokenId) THEN Revert("TransferFailed")
        ELSE IF balances[Market] < listingPrice THEN Revert("PaymentFailed")
        ELSE /\ ownerOf' = TransferFrom(call.nftContract, call.caller, call.tokenId)
             /\ idToMarketItem' = [idToMarketItem EXCEPT ![call.itemId].owner = call.caller]
             /\ _itemsSold' = increment(_itemsSold)
             /\ balances' = Pay(balances, Market, Operator, listingPrice)
             /\ log' = Append(log, MarketItemSold(call.itemId, call.nftContract, call.tokenId, seller, call.caller, call.price, now))
             /\ Returned("ok")
             /\ UNCHANGED _itemIds

\* relistMarketItem up to transferFrom: msg.value is in
EnterRelist(caller, itemId, price, value) ==
  LET item == idToMarketItem[itemId]
  IN /\ relistStatus(caller, itemId, price, value) \in {"ok", "TransferFailed", "CounterUnderflow"}
     /\ Followed(relistStatus(caller, itemId, price, value))
     /\ Enter(Call("relist", caller, item.nftContract, itemId, item.tokenId, price, value, "pending"))
     /\ balances' = Pay(balances, caller, Market, value)
     /\ UNCHANGED <<_itemIds, _itemsSold, idToMarketItem, ownerOf>>

\* relistMarketItem from transferFrom on
ReturnRelist ==
  LET call == frame.call
      item == idToMarketItem[call.itemId]
  IN /\ frame.pc = "external"
     /\ call.op = "relist"
     /\ IF ~TransferOk(call.nftContract, call.caller, call.tokenId) THEN Revert("TransferFailed")
        ELSE IF ~canDecrement(_itemsSold) THEN Revert("CounterUnderflow")
        ELSE /\ ownerOf' = TransferFrom(call.nftContract, Market, call.tokenId)
             /\ idToMarketItem' = [idToMarketItem EXCEPT ![call.itemId] = relisted(item, call.caller, call.price)]
             /\ _itemsSold' = decrement(_itemsSold)
             /\ log' = Append(log, MarketItemRelisted(call.itemId, call.nftContract, call.tokenId, call.caller, call.price, now))
             /\ Returned("ok")
             /\ UNCHANGED <<_itemIds, balances>>

\* cancelListing up to transferFrom: nothing is written yet
EnterCancel(caller, itemId) ==
  LET item == idToMarketItem[itemId]
  IN /\ cancelStatus(caller, itemId) \in {"ok", "TransferFailed"}
     /\ Followed(cancelStatus(caller, itemId))
     /\ Enter(Call("cancel", caller, item.nftContract, itemId, item.tokenId, 0, 0, "pending"))
     /\ UNCHANGED <<_itemIds, _itemsSold, idToMarketItem, balances, ownerOf>>

\* cancelListing from transferFrom on
ReturnCancel ==
  LET call == frame.call
      item == idToMarketItem[call.itemId]
  IN /\ frame.pc = "external"
     /\ call.op = "cancel"
     /\ IF TransferOk(call.nftContract, Market, call.tokenId)
        THEN /\ ownerOf' = TransferFrom(call.nftContract, call.caller, call.tokenId)
             /\ log' = Append(log, MarketItemCanceled(call.itemId, call.nftContract, call.tokenId, call.caller, now))
             /\ idToMarketItem' = [idToMarketItem EXCEPT ![call.itemId].owner = item.seller]
             /\ balances' = cancelPayments(call.caller)
             /\ Returned("ok")
             /\ UNCHANGED <<_itemIds, _itemsSold>>
        ELSE Revert("TransferFailed")

\* the callee calls one of the four mutating functions back: the modifier
\* reverts the nested call before its body runs, whoever calls with whatever
\* arguments (the outcome records the function only).  Neither a rejected
\* nested call nor a read changes the market, so one external call is
\* followed with nested calls or with reads, not with both.
Reenter ==
  /\ frame.pc = "external"
  /\ seen = {}
  /\ IF ~nonReentrant(_status)
     THEN \E op \in {"create", "purchase", "relist", "cancel"} :
            /\ lastCall' = Call(op, None, NoContract, 0, 0, 0, 0, "ReentrantCall")
            /\ UNCHANGED <<ledger, now, inProgress>>
     ELSE Next

\* the callee reads the market (the views carry no modifier)
Read == /\ frame.pc = "external"
        /\ lastCall.status # "ReentrantCall"
        /\ seen' = seen \cup {ReadView}
        /\ UNCHANGED <<ledger, now, lastCall, _status, frame>>

NextSteps ==
  \/ \E c \in Callers, n \in NftContracts, t \in TokenIds, p \in Prices, d \in DataInputs, v \in Fees : EnterCreate(c, n, t, p, d, v)
  \/ \E c \in Callers, n \in NftContracts, i \in ItemIdSpace, v \in Prices : EnterSale(c, n, i, v)
  \/ \E c \in Callers, i \in ItemIdSpace, p \in Prices, v \in Fees : EnterRelist(c, i, p, v)
  \/ \E c \in Callers, i \in ItemIdSpace : EnterCancel(c, i)
  \/ ReturnCreate
  \/ ReturnSale
  \/ ReturnRelist
  \/ ReturnCancel
  \/ Reenter
  \/ Read

SpecSteps == Init /\ [][NextSteps]_vars

TypeOK == /\ _itemIds \in 0..MaxItems
          /\ _itemsSold \in Nat
          /\ \A a \in Accounts : balances[a] \in Nat
          /\ Len(log) <= MaxEvents

\* ======================= properties =======================

Issued(i) == i \in 1.._itemIds

\* the itemIds that fetchMarketItems returns
ActiveIds == {fetchMarketItems[k].itemId : k \in 1..Len(fetchMarketItems)}

Active(i) == i \in ActiveIds

\* position in the log of the last event of item i among the first n events (0: none)
RECURSIVE LastEventOf(_, _)
LastEventOf(i, n) == IF n = 0 THEN 0
                     ELSE IF log[n].itemId = i THEN n
                     ELSE LastEventOf(i, n - 1)

\* the step is a call (accepted or reverted) of the given function
Called(op) == lastCall'.op = op /\ now' = now

Accepted(op) == Called(op) /\ lastCall'.status = "ok"

\* C1: an accepted purchase of an active listing, with buyer, seller and
\* operator pairwise distinct, makes the buyer the owner, pays the seller
\* exactly the price and the operator exactly the listing fee, and removes
\* the item from the active listings.
C1_PurchaseEffects ==
  [][Accepted("purchase") =>
       LET i      == lastCall'.itemId
           buyer  == lastCall'.caller
           seller == idToMarketItem[i].seller
       IN (Issued(i) /\ idToMarketItem[i].owner = None /\ buyer # seller /\ buyer # Operator /\ seller # Operator)
          => /\ idToMarketItem'[i].owner = buyer
             /\ balances'[seller] = balances[seller] + idToMarketItem[i].price
             /\ balances'[Operator] = balances[Operator] + listingPrice
             /\ i \notin ActiveIds']_vars

C1_Witness ==
  /\ lastCall.op = "purchase" /\ lastCall.status = "ok"
  /\ Len(log) >= 2
  /\ LET e == log[Len(log)]
         k == LastEventOf(e.itemId, Len(log) - 1)
     IN /\ e.kind = "Sold" /\ Issued(e.itemId)
        /\ k > 0 /\ log[k].kind \in {"Created", "Relisted"}
        /\ e.buyer # e.seller /\ e.buyer # Operator /\ e.seller # Operator
        /\ e.price = 2
        /\ idToMarketItem[e.itemId].owner = e.buyer

\* C2: a purchase that pays anything but the item's price is rejected: the
\* records (so the owner), the event log and the balances stay as they were.
C2_PriceMismatchRejected ==
  [][(Called("purchase") /\ lastCall'.value # idToMarketItem[lastCall'.itemId].price)
       => /\ lastCall'.status = "PriceMismatch"
          /\ UNCHANGED <<idToMarketItem, log, balances>>]_vars

C2_Witness ==
  /\ lastCall.op = "purchase" /\ lastCall.status = "PriceMismatch"
  /\ Issued(lastCall.itemId)
  /\ idToMarketItem[lastCall.itemId].owner = None
  /\ lastCall.value > idToMarketItem[lastCall.itemId].price

\* C3: a purchase of an itemId that createMarketItem never issued fails,
\* whatever is paid and whatever nftContract is passed.
C3_PurchaseUnknownItemFails ==
  (lastCall.op = "purchase" /\ ~Issued(lastCall.itemId)) => lastCall.status # "ok"

\* C4: every record stored for an issued item has price > 0, after any
\* sequence of accepted and rejected calls.
C4_PricePositive == \A i \in 1.._itemIds : idToMarketItem[i].price > 0

C4_Witness ==
  /\ lastCall.op = "relist" /\ lastCall.status = "ok"
  /\ idToMarketItem[lastCall.itemId].price = lastCall.price
  /\ \E k \in 1..Len(log) : log[k].kind = "Created" /\ log[k].itemId = lastCall.itemId /\ log[k].price # lastCall.price

\* C5: the n-th accepted createMarketItem is given itemId n: the counter
\* equals the number of Created events, whatever other calls (accepted or
\* rejected) happened in between.
CreatedEvents == SelectSeq(log, LAMBDA e : e.kind = "Created")

C5_IdsSequential ==
  /\ Len(CreatedEvents) = _itemIds
  /\ \A n \in 1..Len(CreatedEvents) : CreatedEvents[n].itemId = n /\ idToMarketItem[n].itemId = n

C5_Witness ==
  /\ _itemIds = 2
  /\ Len(log) = 4
  /\ log[1].kind = "Created" /\ log[2].kind = "Sold" /\ log[3].kind = "Created" /\ log[4].kind = "Canceled"
  /\ log[3].itemId = 2

\* C6: after an accepted createMarketItem by c with price p, the new record
\* has owner none, seller c and price p, the token is held by the market,
\* and fetchMarketItems returns the item.
C6_CreateEffects ==
  (lastCall.op = "create" /\ lastCall.status = "ok") =>
     LET i == lastCall.itemId
     IN /\ i = _itemIds /\ i >= 1
        /\ idToMarketItem[i].owner = None
        /\ idToMarketItem[i].seller = lastCall.caller
        /\ idToMarketItem[i].price = lastCall.price /\ lastCall.price > 0
        /\ lastCall.value = listingPrice
        /\ ownerOf[lastCall.nftContract][lastCall.tokenId] = Market
        /\ Active(i)

C6_Witness ==
  /\ lastCall.op = "create" /\ lastCall.status = "ok"
  /\ lastCall.itemId = 2 /\ lastCall.price = 2
  /\ Active(2) /\ ~Active(1)

\* C7: createMarketItem with price 0 is rejected as an invalid price and
\* with a wrong fee as a fee mismatch; either way nothing changes: no
\* identifier, no record, no custody transfer, no balance, no event.
C7_CreateRejected ==
  [][Called("create") =>
       /\ (lastCall'.price = 0 => lastCall'.status = "InvalidPrice")
       /\ (lastCall'.price > 0 /\ lastCall'.value # listingPrice => lastCall'.status = "FeeMismatch")
       /\ (lastCall'.status # "ok" => UNCHANGED ledger)]_vars

C7_Witness ==
  /\ lastCall.op = "create" /\ lastCall.status = "FeeMismatch"
  /\ lastCall.price > 0 /\ lastCall.value > listingPrice
  /\ ownerOf[lastCall.nftContract][lastCall.tokenId] = lastCall.caller
  /\ _itemIds = 1

\* C8: relistMarketItem is accepted only from the item's owner; afterwards
\* the owner is none, the seller is the caller, the price is the new price
\* and fetchMarketItems returns the item.
C8_RelistEffects ==
  [][Accepted("relist") =>
       LET i == lastCall'.itemId
       IN /\ idToMarketItem[i].owner = lastCall'.caller
          /\ idToMarketItem'[i].owner = None
          /\ idToMarketItem'[i].seller = lastCall'.caller
          /\ idToMarketItem'[i].price = lastCall'.price
          /\ i \in ActiveIds']_vars

C8_Witness ==
  /\ lastCall.op = "relist" /\ lastCall.status = "ok"
  /\ Len(log) >= 3
  /\ log[Len(log)].kind = "Relisted"
  /\ log[Len(log) - 1].kind = "Sold" /\ log[Len(log) - 1].itemId = lastCall.itemId
  /\ log[Len(log) - 1].seller # lastCall.caller
  /\ log[Len(log) - 1].price # lastCall.price
  /\ Active(lastCall.itemId)

\* C9: a relist by the item's current owner, with a price > 0, the exact
\* listing fee and a custody transfer that succeeds, is accepted.
C9_RelistByOwnerAccepted ==
  LET item == idToMarketItem[lastCall.itemId]
  IN (/\ lastCall.op = "relist"
      /\ item.owner = lastCall.caller
      /\ lastCall.price > 0
      /\ lastCall.value = listingPrice
      /\ TransferOk(item.nftContract, lastCall.caller, item.tokenId))
     => lastCall.status = "ok"

\* every sale in the log is a sale of a listed item, made with the item's own
\* nftContract (a history that uses no purchase of an unknown or inactive item)
RegularSales ==
  \A n \in 1..Len(log) :
     log[n].kind = "Sold" =>
        LET k == LastEventOf(log[n].itemId, n - 1)
        IN k > 0 /\ log[k].kind \in {"Created", "Relisted"} /\ log[k].nftContract = log[n].nftContract

\* C10: relist leaves the Sold state only: every Relisted event follows, in
\* its item's history, a Sold event, and no relist is accepted for an item
\* whose last event is Canceled (stated for histories of regular sales).
C10_RelistOnlyAfterSold ==
  RegularSales =>
  /\ \A n \in 1..Len(log) :
        log[n].kind = "Relisted" =>
           LET k == LastEventOf(log[n].itemId, n - 1) IN k > 0 /\ log[k].kind = "Sold"
  /\ \A i \in ItemIdSpace :
        LET k == LastEventOf(i, Len(log))
        IN (k > 0 /\ log[k].kind = "Canceled") =>
              \A c \in Callers, p \in Prices, v \in Fees : relistStatus(c, i, p, v) # "ok"

\* C11: cancelListing is accepted only when, before the call, the item has no
\* owner and the caller is its seller; after an accepted cancel the caller is
\* the item's owner, the token is back with the caller, and fetchMarketItems
\* no longer returns the item.
C11_CancelEffects ==
  [][Accepted("cancel") =>
       LET i == lastCall'.itemId
           c == lastCall'.caller
       IN /\ idToMarketItem[i].owner = None
          /\ idToMarketItem[i].seller = c
          /\ idToMarketItem'[i].owner = c
          /\ ownerOf'[idToMarketItem[i].nftContract][idToMarketItem[i].tokenId] = c
          /\ i \notin ActiveIds']_vars

\* a listing was canceled by its seller while another one stays active
C11_Witness ==
  /\ lastCall.op = "cancel" /\ lastCall.status = "ok"
  /\ Issued(lastCall.itemId)
  /\ idToMarketItem[lastCall.itemId].owner = lastCall.caller
  /\ ownerOf[lastCall.nftContract][lastCall.tokenId] = lastCall.caller
  /\ ActiveIds # {}

\* C12: cancelListing on an item that has an owner (sold, or already
\* canceled) reverts with "Can't cancel after sold" for every caller, the
\* item's seller included, and leaves records, custody, balances and the
\* event log as they were.
C12_CancelAfterSoldRejected ==
  [][(Called("cancel") /\ idToMarketItem[lastCall'.itemId].owner # None) =>
       /\ lastCall'.status = "AlreadySold"
       /\ UNCHANGED ledger]_vars

\* the seller of a sold item tried to cancel it
C12_Witness ==
  /\ lastCall.op = "cancel" /\ lastCall.status = "AlreadySold"
  /\ Issued(lastCall.itemId)
  /\ idToMarketItem[lastCall.itemId].seller = lastCall.caller
  /\ log[Len(log)].kind = "Sold" /\ log[Len(log)].itemId = lastCall.itemId

\* C13: an accepted cancelListing moves no money: the contract's balance,
\* the seller's and the operator's are what they were before the call.
C13_CancelMovesNoMoney ==
  [][Accepted("cancel") => balances' = balances]_vars

\* a listing was canceled while the contract still holds its listing fee
C13_Witness ==
  /\ lastCall.op = "cancel" /\ lastCall.status = "ok"
  /\ Len(log) = 2 /\ log[1].kind = "Created" /\ log[2].kind = "Canceled"
  /\ balances[Market] = listingPrice
  /\ balances[lastCall.caller] = InitFunds - listingPrice

\* C14: fetchMarketItems returns exactly the issued items without owner, each
\* once, in ascending itemId order, and the fill pass writes as many items as
\* the counting pass counted.
C14_FetchMarketItems ==
  LET items == fetchMarketItems
  IN /\ Len(fillUnsold(_itemIds)) = unsoldCount(_itemIds)
     /\ \A k \in 1..Len(items) : /\ Issued(items[k].itemId)
                                 /\ items[k] = idToMarketItem[items[k].itemId]
                                 /\ items[k].owner = None
     /\ \A k \in 1..(Len(items) - 1) : items[k].itemId < items[k + 1].itemId
     /\ \A i \in 1.._itemIds : idToMarketItem[i].owner = None => i \in ActiveIds

\* item 1 has an owner and item 2 is the only item returned
C14_Witness ==
  /\ _itemIds = 2
  /\ idToMarketItem[1].owner # None
  /\ Len(fetchMarketItems) = 1
  /\ fetchMarketItems[1].itemId = 2

EventKindOf(op) == CASE op = "create"   -> "Created"
                     [] op = "purchase" -> "Sold"
                     [] op = "relist"   -> "Relisted"
                     [] op = "cancel"   -> "Canceled"
                     [] OTHER           -> "none"

\* C18: the event log is append-only and complete: an accepted
\* createMarketItem, createMarketSale, relistMarketItem or cancelListing
\* appends exactly one event of its kind keyed by the item's itemId, a
\* reverted call appends none, and no step changes or removes an earlier event.
C18_LogAppendOnly ==
  [][IF now' = now /\ lastCall'.status = "ok"
     THEN /\ Len(log') = Len(log) + 1
          /\ SubSeq(log', 1, Len(log)) = log
          /\ log'[Len(log')].kind = EventKindOf(lastCall'.op)
          /\ log'[Len(log')].itemId = lastCall'.itemId
          /\ lastCall'.op = "create" => lastCall'.itemId = _itemIds'
     ELSE log' = log]_vars

\* one item went through all four operations
C18_Witness ==
  /\ Len(log) = 4
  /\ log[1].kind = "Created" /\ log[2].kind = "Sold"
  /\ log[3].kind = "Relisted" /\ log[4].kind = "Canceled"
  /\ \A n \in 1..4 : log[n].itemId = 1

\* the event that issued item i, among the first n events (0: none)
CreatedEventOf(i, n) ==
  IF \E k \in 1..n : log[k].kind = "Created" /\ log[k].itemId = i
  THEN CHOOSE k \in 1..n : log[k].kind = "Created" /\ log[k].itemId = i
  ELSE 0

\* C19: every event of an item that was issued when the event was emitted
\* carries the nftContract and tokenId stored in the item's record.
C19_EventsCarryRecordAsset ==
  \A n \in 1..Len(log) :
     LET i == log[n].itemId
     IN CreatedEventOf(i, n) > 0 =>
          /\ log[n].nftContract = idToMarketItem[i].nftContract
          /\ log[n].tokenId = idToMarketItem[i].tokenId

\* C20: every event in the log has a timestamp, so every entry of the
\* history built for an item has a timestamp that is not null.
C20_EveryEntryHasTimestamp ==
  /\ \A n \in 1..Len(log) : "timestamp" \in DOMAIN log[n]
  /\ \A i \in ItemIdSpace : \A k \in 1..Len(pushedEvents(i)) : pushedEvents(i)[k].timestamp # Null

\* C16: while a mutating call is in progress (its external transferFrom is
\* running), a nested call of any of the four mutating functions reverts
\* and changes nothing.
C16_NestedCallsRejected ==
  [][(frame.pc = "external" /\ frame' = frame /\ seen' = seen) =>
       /\ lastCall'.status = "ReentrantCall"
       /\ UNCHANGED ledger]_vars

\* a nested cancelListing was rejected during the transferFrom of a purchase
C16_Witness ==
  /\ frame.pc = "external" /\ frame.call.op = "purchase"
  /\ _status = "ENTERED"
  /\ lastCall.op = "cancel" /\ lastCall.status = "ReentrantCall"

\* C17: a read made while a mutating call is in progress returns either the
\* state before the call or the state after it (records, payments and
\* custody together), never a mix.
C17_ReadsSeeAllOrNothing ==
  frame.pc = "returned" => \A v \in seen : v = frame.before[1] \/ v = ReadView

\* the events of item i, in the order in which the contract accepted them
ItemEvents(i) == SelectSeq(log, LAMBDA e : e.itemId = i)

KindsOf(es) == [k \in 1..Len(es) |-> es[k].kind]

TypesOf(h) == [k \in 1..Len(h) |-> h[k].type]

\* the history entry that stands for an event
TypeOfKind(kind) == CASE kind = "Created"  -> "LISTED"
                      [] kind = "Sold"     -> "SOLD"
                      [] kind = "Relisted" -> "RELISTED"
                      [] kind = "Canceled" -> "CANCELED"

EntryOf(e) == historyEntry(TypeOfKind(e.kind), e)

\* C21: for an item that was Created, then Sold, then Relisted, then
\* Canceled (block timestamps never decrease, some may be equal),
\* fetchItemHistories returns exactly 4 entries, in the order LISTED, SOLD,
\* RELISTED, CANCELED.
C21_FourEventHistory ==
  \A i \in ItemIdSpace :
     KindsOf(ItemEvents(i)) = <<"Created", "Sold", "Relisted", "Canceled">> =>
        TypesOf(fetchItemHistories(i)) = <<"LISTED", "SOLD", "RELISTED", "CANCELED">>

\* item 1 went through the four events, sold in one block, relisted and
\* canceled together in a later one
C21_Witness ==
  LET es == ItemEvents(1)
  IN /\ KindsOf(es) = <<"Created", "Sold", "Relisted", "Canceled">>
     /\ es[2].timestamp = 0 /\ es[3].timestamp = 1 /\ es[4].timestamp = 1
     /\ Len(fetchItemHistories(1)) = 4

\* C22: for every item, fetchItemHistories returns each Created, Sold,
\* Relisted and Canceled event of that itemId exactly once and no event of
\* another item, each tagged with its type, in ascending order of timestamp
\* (as the comparator reads it: a missing timestamp counts as 0).
C22_HistoryComplete ==
  \A i \in ItemIdSpace :
     LET h  == fetchItemHistories(i)
         es == ItemEvents(i)
     IN /\ Len(h) = Len(es)
        /\ \A k \in 1..Len(h) : h[k].itemId = i
        /\ \E pi \in [1..Len(es) -> 1..Len(es)] :
              /\ \A a, b \in 1..Len(es) : pi[a] = pi[b] => a = b
              /\ \A k \in 1..Len(es) : h[pi[k]] = EntryOf(es[k])
        /\ \A k \in 1..(Len(h) - 1) : toNumber(h[k].timestamp) <= toNumber(h[k + 1].timestamp)

\* two items have events, and the history of item 1 spans two blocks
C22_Witness ==
  LET h == fetchItemHistories(1)
  IN /\ Len(h) >= 3
     /\ Len(fetchItemHistories(2)) >= 1
     /\ h[2].timestamp = 0 /\ h[Len(h)].timestamp = 1

\* C28: for every lifecycle of an item, fetchItemHistories lists the item's
\* events in the order in which the contract accepted them, also when
\* several of them carry the same timestamp (stated for histories of
\* regular sales).
C28_HistoryInAcceptanceOrder ==
  RegularSales =>
    \A i \in ItemIdSpace :
       LET es == ItemEvents(i)
       IN fetchItemHistories(i) = [k \in 1..Len(es) |-> EntryOf(es[k])]

\* C23: getMarketItem, getDataInfo and verifyOwnership, called with an itemId
\* that was never issued, fail: they return neither the default record, nor
\* default data, nor a boolean, for every address argument.
C23_UnknownItemReadsFail ==
  \A i \in ItemIdSpace :
     ~Issued(i) =>
        /\ getMarketItem(i) # EmptyItem
        /\ getDataInfo(i) # [dataHash |-> EmptyItem.dataHash, licenseType |-> EmptyItem.licenseType, encryptedDataUrl |-> EmptyItem.encryptedDataUrl]
        /\ \A u \in Accounts : verifyOwnership(i, u) \notin BOOLEAN

\* every sale in the log is a sale of an item that had been issued
KnownSales ==
  \A n \in 1..Len(log) : log[n].kind = "Sold" => CreatedEventOf(log[n].itemId, n - 1) > 0

\* C24: each listing is sold at most once: the event of an issued item that
\* precedes a Sold event of that item is a listing event (Created or
\* Relisted), never a Sold or a Canceled event.
C24_SoldAtMostOncePerListing ==
  \A n \in 1..Len(log) :
     LET i == log[n].itemId
     IN (log[n].kind = "Sold" /\ CreatedEventOf(i, n - 1) > 0) =>
           log[LastEventOf(i, n - 1)].kind \in {"Created", "Relisted"}

\* C25: the contract's balance is at least listingPrice times the number of
\* issued items without owner.
C25_FeesEscrowed ==
  balances[Market] >= listingPrice * Cardinality({i \in 1.._itemIds : idToMarketItem[i].owner = None})

\* C26: custody matches the record: the token of an issued item is held by
\* the contract iff the item has no owner, and by the item's owner otherwise
\* (stated for histories without a purchase of an unknown item).
C26_CustodyMatchesRecord ==
  KnownSales =>
    \A i \in 1.._itemIds :
       LET item   == idToMarketItem[i]
           holder == ownerOf[item.nftContract][item.tokenId]
       IN IF item.owner = None THEN holder = Market ELSE holder = item.owner

\* C27: the record of an item is a function of the last event appended for
\* it: after Created or Relisted the item has no owner and the event's
\* seller and price; after Sold its owner is the event's buyer and it has
\* the event's seller and price; after Canceled owner and seller are the
\* event's seller.
C27_RecordFollowsLastEvent ==
  \A i \in ItemIdSpace :
     LET k    == LastEventOf(i, Len(log))
         item == idToMarketItem[i]
     IN k > 0 =>
          CASE log[k].kind \in {"Created", "Relisted"} ->
                 item.owner = None /\ item.seller = log[k].seller /\ item.price = log[k].price
            [] log[k].kind = "Sold" ->
                 item.owner = log[k].buyer /\ item.seller = log[k].seller /\ item.price = log[k].price
            [] log[k].kind = "Canceled" ->
                 item.owner = log[k].seller /\ item.seller = log[k].seller

\* item 1 was sold to another account and item 2 was canceled
C27_Witness ==
  /\ Len(log) = 4
  /\ LastEventOf(1, 4) > 0 /\ log[LastEventOf(1, 4)].kind = "Sold"
  /\ log[LastEventOf(1, 4)].buyer # log[LastEventOf(1, 4)].seller
  /\ LastEventOf(2, 4) > 0 /\ log[LastEventOf(2, 4)].kind = "Canceled"

\* C29: for every listing of the index page, Buy calls createMarketSale with
\* the itemId of the item the listing was loaded from.
C29_BuyTargetsListedItem ==
  \A k \in 1..Len(fetchMarketItems) : buyNft(loadNFTs[k]).itemId = fetchMarketItems[k].itemId

\* C30: on the item page relist is enabled for exactly the address from
\* which relistMarketItem is not rejected as "not owner".
C30_RelistEnabledForOwner ==
  \A i \in 1.._itemIds : \A u \in Callers :
     relistEnabled(u, loadNFT(i)) <=> relistStatus(u, i, listingPrice, listingPrice) # "NotOwner"

====
